---- MODULE Spec2Model ----
(***************************************************************************)
(* Model of the SEV Energy integration (custom_components/sev_energy):     *)
(* the three provider-client functions of sensor.py, the refresh cycle of  *)
(* SEVCumulativeCoordinator, platform setup and the per-meter sensors.     *)
(*                                                                         *)
(* Encoding of Python values                                               *)
(*   None            <<>>            (NoneVal)                             *)
(*   a value v       <<v>>           (Some(v)), wherever None is possible  *)
(*   float           an integer counting tenths of a kWh (12.3 -> 123)     *)
(*   str             a sequence of strings: one per character of a provider *)
(*                   text or formatted number, one per f-string literal    *)
(*   dict            a function from its keys                              *)
(*   JSON object     a record; a key the object lacks is not in its DOMAIN *)
(***************************************************************************)
EXTENDS Integers, Sequences, FiniteSets, TLC

VARIABLES
    phase,                \* "new" | "not_ready" | "running": platform setup of the config entry
    meter_ids,            \* SEVCumulativeCoordinator.meter_ids
    data,                 \* coordinator.data: None or the published snapshot
    last_update_success,  \* coordinator.last_update_success
    sensors,              \* the entities handed to async_add_entities
    calls,                \* provider calls issued by the most recent refresh cycle, in order
    upstream,             \* None: the provider may answer each call differently;
                          \* Some(u): it answers every call from u
    ml_resp,              \* a get_available_meters response (unit specification of sev_get_meters)
    ml_expect,            \* meter_id values put into ml_resp, in response order
    ml_ret,               \* None, or Some(what sev_get_meters returned for ml_resp)
    us_resp,              \* an hourly_kwh_usage response (unit specification of the fetch)
    us_ret                \* None, or Some(what sev_fetch_cumulative_meter returned for us_resp)

vars == <<phase, meter_ids, data, last_update_success, sensors, calls, upstream,
          ml_resp, ml_expect, ml_ret, us_resp, us_ret>>

coordVars == <<phase, meter_ids, data, last_update_success, sensors, calls, upstream>>
mlVars == <<ml_resp, ml_expect, ml_ret>>
usVars == <<us_resp, us_ret>>

----------------------------------------------------------------------------
(* Bounds *)

MaxMeters == 3        \* meter records in one meter-list response of Spec / SpecIdem
MaxNodes == 6         \* customer + installation + meter records in a response of SpecMeters
MaxReadings == 3      \* readings in the first element of a response of SpecFetch

MeterIds == {101, 102}
Values == {-30, -10, 0, 50, 80, 123}

----------------------------------------------------------------------------
(* Python values *)

NoneVal == <<>>
Some(v) == <<v>>

HasKey(obj, key) == key \in DOMAIN obj

\* dict[key] = value
DictSetSkipNone(d, key, value) ==
    IF value = NoneVal THEN d
    ELSE [x \in (DOMAIN d) \cup {key} |-> IF x = key THEN value ELSE d[x]]

DictSet(d, key, value) ==
    [x \in (DOMAIN d) \cup {key} |-> IF x = key THEN value ELSE d[x]]

EmptyDict == [x \in {} |-> NoneVal]

IsSpace(c) == c \in {" ", "\n", "\t"}

RECURSIVE LStrip(_)
LStrip(s) == IF s # <<>> /\ IsSpace(Head(s)) THEN LStrip(Tail(s)) ELSE s

RECURSIVE RStrip(_)
RStrip(s) ==
    IF s # <<>> /\ IsSpace(s[Len(s)]) THEN RStrip(SubSeq(s, 1, Len(s) - 1)) ELSE s

\* str.strip()
Strip(s) == RStrip(LStrip(s))

DigitChar(d) == <<"0", "1", "2", "3", "4", "5", "6", "7", "8", "9">>[d + 1]

\* str(n) for n >= 0, as used by the f-strings
RECURSIVE IntStr(_)
IntStr(n) == IF n < 10 THEN <<DigitChar(n)>> ELSE IntStr(n \div 10) \o <<DigitChar(n % 10)>>

----------------------------------------------------------------------------
(* Provider responses.  A response is what requests.post produced:          *)
(*   [kind |-> "exception"]                       the request raised        *)
(*   [kind |-> "http", status, text]              login                     *)
(*   [kind |-> "http", status, body]              meter list / usage        *)
(* body is [json |-> "invalid"] (resp.json() or the walk over it raises),   *)
(* [json |-> "object"] (valid JSON that is no list), or                     *)
(* [json |-> "list", items |-> <<...>>].                                    *)

Exception == [kind |-> "exception"]
Http(status, body) == [kind |-> "http", status |-> status, body |-> body]
HttpText(status, text) == [kind |-> "http", status |-> status, text |-> text]
JsonInvalid == [json |-> "invalid"]
JsonObject == [json |-> "object"]
JsonList(items) == [json |-> "list", items |-> items]

JNull == [t |-> "null"]
JArr(items) == [t |-> "list", v |-> items]

----------------------------------------------------------------------------
(* sev_authenticate *)

sev_authenticate(resp) ==
    IF resp.kind = "exception" THEN NoneVal
    ELSE IF resp.status = 200 THEN Some(Strip(resp.text))
    ELSE NoneVal

----------------------------------------------------------------------------
(* sev_get_meters *)

\* for m in inst.get("meters", []): a meter without meter_id ends the walk
RECURSIVE CollectMetersStopAtMissing(_, _, _)
CollectMetersStopAtMissing(ms, i, acc) ==
    IF i > Len(ms) THEN acc
    ELSE IF HasKey(ms[i], "meter_id")
         THEN CollectMetersStopAtMissing(ms, i + 1, Append(acc, ms[i].meter_id))
         ELSE acc

\* for m in inst.get("meters", []): if "meter_id" in m: meter_ids.append(m["meter_id"])
RECURSIVE CollectMeters(_, _, _)
CollectMeters(ms, i, acc) ==
    IF i > Len(ms) THEN acc
    ELSE CollectMeters(ms, i + 1,
                       IF HasKey(ms[i], "meter_id") THEN Append(acc, ms[i].meter_id) ELSE acc)

\* for inst in customer.get("installations", []): ...
RECURSIVE CollectInstallations(_, _, _)
CollectInstallations(insts, i, acc) ==
    IF i > Len(insts) THEN acc
    ELSE CollectInstallations(insts, i + 1,
            CollectMeters(IF HasKey(insts[i], "meters") THEN insts[i].meters ELSE <<>>, 1, acc))

\* for customer in data: ...
RECURSIVE CollectCustomers(_, _, _)
CollectCustomers(custs, i, acc) ==
    IF i > Len(custs) THEN acc
    ELSE CollectCustomers(custs, i + 1,
            CollectInstallations(
                IF HasKey(custs[i], "installations") THEN custs[i].installations ELSE <<>>,
                1, acc))

sev_get_meters(resp) ==
    IF resp.kind = "exception" THEN <<>>
    ELSE IF resp.status = 200
         THEN IF resp.body.json = "list" THEN CollectCustomers(resp.body.items, 1, <<>>)
              ELSE <<>>      \* resp.json() or the iteration raised: except branch
         ELSE <<>>

----------------------------------------------------------------------------
(* sev_fetch_cumulative_meter *)

\* r.get("cumulative_value")
CumulativeValue(r) == IF HasKey(r, "cumulative_value") THEN r.cumulative_value ELSE NoneVal

\* max_val = 0.0
InitialMax == 0

\* for r in readings: cum = r.get(...); if cum is not None and cum > max_val: max_val = cum
RECURSIVE MaxLoop(_, _, _)
MaxLoop(readings, i, max_val) ==
    IF i > Len(readings) THEN max_val
    ELSE LET cum == CumulativeValue(readings[i])
         IN  MaxLoop(readings, i + 1,
                     IF cum # NoneVal /\ cum[1] > max_val THEN cum[1] ELSE max_val)

NoReadingsNullOnly(readings) == readings.t = "null"

\* if not readings
NoReadings(readings) == readings.t = "null" \/ readings.v = <<>>

\* data[0].get("readings", [])
ReadingsOf(element) == IF HasKey(element, "readings") THEN element.readings ELSE JArr(<<>>)

sev_fetch_cumulative_meter(resp) ==
    IF resp.kind = "exception" THEN NoneVal
    ELSE IF resp.status = 200
         THEN IF resp.body.json = "invalid" THEN NoneVal      \* except branch
              ELSE IF resp.body.json = "list" /\ Len(resp.body.items) > 0
                   THEN LET readings == ReadingsOf(resp.body.items[1])
                        IN  IF NoReadings(readings) THEN NoneVal
                            ELSE Some(MaxLoop(readings.v, 1, InitialMax))
                   ELSE NoneVal
         ELSE NoneVal

----------------------------------------------------------------------------
(* What the provider may answer (Spec, SpecIdem) *)

SeqsUpTo(S, n) == UNION {[1..k -> S] : k \in 0..n}

LoginResps ==
    { Exception,
      HttpText(401, <<"n", "o">>),
      HttpText(200, <<" ">>),
      HttpText(200, <<" ", "T", "1", "\n">>) }

MeterRecs == {[type |-> "el"]} \cup {[type |-> "el", meter_id |-> id] : id \in MeterIds}

MeterResps ==
    { Exception,
      Http(500, JsonList(<<>>)),
      Http(200, JsonInvalid),
      Http(200, JsonList(<<[customer_no |-> 1]>>)) }
    \cup { Http(200, JsonList(<<[customer_no |-> 1,
                                 installations |-> <<[inst_no |-> 1, meters |-> ms]>>]>>))
           : ms \in SeqsUpTo(MeterRecs, MaxMeters) }

Reading(cum) == [time_stamp |-> "t", cumulative_value |-> cum]

UsageResps ==
    { Exception,
      Http(200, JsonList(<<[meter |-> "m", readings |-> JArr(<<>>)]>>)),
      Http(200, JsonList(<<[meter |-> "m", readings |-> JArr(<<Reading(Some(50))>>)]>>)),
      Http(200, JsonList(<<[meter |-> "m",
                            readings |-> JArr(<<Reading(Some(50)), Reading(Some(123)),
                                                Reading(NoneVal), Reading(Some(80))>>)]>>)) }

Upstreams == [login : LoginResps, meters : MeterResps, usage : [MeterIds -> UsageResps]]

LoginChoices == IF upstream = NoneVal THEN LoginResps ELSE {upstream[1].login}

MeterChoices == IF upstream = NoneVal THEN MeterResps ELSE {upstream[1].meters}

\* one usage response per fetch call, in call order
UsageChoices(ids) ==
    IF upstream = NoneVal THEN [1..Len(ids) -> UsageResps]
    ELSE {[i \in 1..Len(ids) |-> upstream[1].usage[ids[i]]]}

----------------------------------------------------------------------------
(* SEVCumulativeCoordinator._async_update_data *)

Call(op, meter, ret) == [op |-> op, meter |-> meter, ret |-> ret]

AuthFailedNever(jwt) == FALSE

\* if not jwt
AuthFailed(jwt) == jwt = NoneVal \/ jwt[1] = <<>>

NeedsDiscoveryAlways(cached) == TRUE

\* if not self.meter_ids
NeedsDiscovery(cached) == cached = <<>>

UpdateFailedReturnsEmpty(log) ==
    [raised |-> FALSE, value |-> EmptyDict, meter_ids |-> meter_ids, calls |-> log]

\* raise UpdateFailed(...): nothing was assigned
UpdateFailed(log) ==
    [raised |-> TRUE, value |-> EmptyDict, meter_ids |-> meter_ids, calls |-> log]

LoopIdsLocal(self_meter_ids, ids) == ids

\* for m_id in self.meter_ids (ids is the local of step 2, empty when step 2 was skipped)
LoopIds(self_meter_ids, ids) == self_meter_ids

\* val = sev_fetch_cumulative_meter(jwt, m_id); results[m_id] = val
RECURSIVE FetchLoop(_, _, _, _, _)
FetchLoop(ids, u, i, results, log) ==
    IF i > Len(ids) THEN [results |-> results, calls |-> log]
    ELSE LET val == sev_fetch_cumulative_meter(u[i])
         IN  FetchLoop(ids, u, i + 1, DictSet(results, ids[i], val),
                       Append(log, Call("fetch", Some(ids[i]), val)))

\* step (3) and return results
Step3(self_meter_ids, ids, log) ==
    { LET r == FetchLoop(LoopIds(self_meter_ids, ids), u, 1, EmptyDict, log)
      IN  [raised |-> FALSE, value |-> r.results, meter_ids |-> self_meter_ids,
           calls |-> r.calls]
      : u \in UsageChoices(LoopIds(self_meter_ids, ids)) }

\* step (2)
Step2(log) ==
    IF NeedsDiscovery(meter_ids)
    THEN UNION { LET ids == sev_get_meters(m)
                     log2 == Append(log, Call("list", NoneVal, ids))
                 IN  IF ids = <<>> THEN {UpdateFailed(log2)} ELSE Step3(ids, ids, log2)
                 : m \in MeterChoices }
    ELSE Step3(meter_ids, <<>>, log)

\* the outcomes one run of _async_update_data can have in the current state
async_update_data ==
    UNION { LET jwt == sev_authenticate(l)
                log == <<Call("auth", NoneVal, jwt)>>
            IN  IF AuthFailed(jwt) THEN {UpdateFailed(log)} ELSE Step2(log)
            : l \in LoginChoices }

----------------------------------------------------------------------------
(* SEVCumulativeSensor *)

SEVCumulativeSensor(meter_id) ==
    [meter_id |-> meter_id,
     name |-> <<"SEV Cumulative (">> \o IntStr(meter_id) \o <<")">>,
     unique_id |-> <<"sev_cumulative_">> \o IntStr(meter_id)]

native_value(s) ==
    IF data = NoneVal THEN NoneVal
    ELSE IF s.meter_id \in DOMAIN data[1] THEN data[1][s.meter_id] ELSE NoneVal

availableIgnoringCoordinator(s) ==
    LET d == IF data = NoneVal THEN EmptyDict ELSE data[1]
    IN  s.meter_id \in DOMAIN d /\ d[s.meter_id] # NoneVal

available(s) ==
    IF ~last_update_success THEN FALSE
    ELSE LET d == IF data = NoneVal THEN EmptyDict ELSE data[1]
         IN  s.meter_id \in DOMAIN d /\ d[s.meter_id] # NoneVal

----------------------------------------------------------------------------
(* Platform setup and the periodic refresh *)

IdleML == ml_resp = Exception /\ ml_expect = <<>> /\ ml_ret = NoneVal
IdleUS == us_resp = Exception /\ us_ret = NoneVal

InitCoordinator ==
    /\ phase = "new"
    /\ meter_ids = <<>>
    /\ data = NoneVal
    /\ last_update_success = TRUE
    /\ sensors = <<>>
    /\ calls = <<>>

Init == InitCoordinator /\ upstream = NoneVal /\ IdleML /\ IdleUS

InitIdem == InitCoordinator /\ upstream \in {Some(u) : u \in Upstreams} /\ IdleML /\ IdleUS

\* async_setup_entry: a new coordinator, its first refresh, then one sensor per cached id.
\* A failed first refresh raises ConfigEntryNotReady and the host calls setup again later.
async_setup_entry ==
    /\ phase \in {"new", "not_ready"}
    /\ \E o \in async_update_data :
          /\ calls' = o.calls
          /\ meter_ids' = o.meter_ids
          /\ last_update_success' = ~o.raised
          /\ IF o.raised
             THEN /\ phase' = "not_ready"
                  /\ data' = data
                  /\ sensors' = sensors
             ELSE /\ phase' = "running"
                  /\ data' = Some(o.value)
                  /\ sensors' = [i \in 1..Len(o.meter_ids) |->
                                    SEVCumulativeSensor(o.meter_ids[i])]
    /\ UNCHANGED <<upstream, mlVars, usVars>>

\* the hourly refresh driven by the host's DataUpdateCoordinator
Refresh ==
    /\ phase = "running"
    /\ \E o \in async_update_data :
          /\ calls' = o.calls
          /\ meter_ids' = o.meter_ids
          /\ last_update_success' = ~o.raised
          /\ data' = IF o.raised THEN data ELSE Some(o.value)
    /\ UNCHANGED <<phase, sensors, upstream, mlVars, usVars>>

Next == async_setup_entry \/ Refresh

Spec == Init /\ [][Next]_vars

SpecIdem == InitIdem /\ [][Next]_vars

----------------------------------------------------------------------------
(* SpecMeters: sev_get_meters over every meter-list response of at most    *)
(* MaxNodes records.  The provider assembles the response in response      *)
(* order; ml_expect notes each meter_id as it is put in.                   *)

RECURSIVE SumLens(_, _)
SumLens(seqs, i) == IF i > Len(seqs) THEN 0 ELSE Len(seqs[i]) + SumLens(seqs, i + 1)

InstallationsOf(c) == IF HasKey(c, "installations") THEN c.installations ELSE <<>>
MetersOfInst(inst) == IF HasKey(inst, "meters") THEN inst.meters ELSE <<>>

NodesOfCustomer(c) ==
    1 + Len(InstallationsOf(c))
      + SumLens([i \in 1..Len(InstallationsOf(c)) |-> MetersOfInst(InstallationsOf(c)[i])], 1)

RECURSIVE NodesOf(_, _)
NodesOf(custs, i) ==
    IF i > Len(custs) THEN 0 ELSE NodesOfCustomer(custs[i]) + NodesOf(custs, i + 1)

MLBuildable ==
    /\ ml_ret = NoneVal
    /\ ml_resp.kind = "http"
    /\ ml_resp.body.json = "list"
    /\ NodesOf(ml_resp.body.items, 1) < MaxNodes

InitMeters ==
    /\ InitCoordinator /\ upstream = NoneVal /\ IdleUS
    /\ ml_resp \in { Exception, Http(200, JsonInvalid), Http(200, JsonObject),
                     Http(200, JsonList(<<>>)), Http(500, JsonList(<<>>)) }
    /\ ml_expect = <<>>
    /\ ml_ret = NoneVal

\* a further customer record, with or without the "installations" key
AddCustomer ==
    /\ MLBuildable
    /\ \E withKey \in BOOLEAN :
          LET n == Len(ml_resp.body.items) + 1
              c == IF withKey THEN [customer_no |-> n, installations |-> <<>>]
                   ELSE [customer_no |-> n]
          IN  ml_resp' = [ml_resp EXCEPT !.body.items = Append(@, c)]
    /\ UNCHANGED <<ml_expect, ml_ret, coordVars, usVars>>

\* a further installation of the last customer, with or without the "meters" key
AddInstallation ==
    /\ MLBuildable
    /\ Len(ml_resp.body.items) > 0
    /\ LET n == Len(ml_resp.body.items)
       IN  /\ HasKey(ml_resp.body.items[n], "installations")
           /\ \E withKey \in BOOLEAN :
                 LET k == Len(ml_resp.body.items[n].installations) + 1
                     inst == IF withKey THEN [inst_no |-> k, meters |-> <<>>]
                             ELSE [inst_no |-> k]
                 IN  ml_resp' = [ml_resp EXCEPT
                                    !.body.items[n].installations = Append(@, inst)]
    /\ UNCHANGED <<ml_expect, ml_ret, coordVars, usVars>>

\* a further meter of the last installation, with or without the "meter_id" field
AddMeter ==
    /\ MLBuildable
    /\ Len(ml_resp.body.items) > 0
    /\ LET n == Len(ml_resp.body.items)
       IN  /\ HasKey(ml_resp.body.items[n], "installations")
           /\ Len(ml_resp.body.items[n].installations) > 0
           /\ LET k == Len(ml_resp.body.items[n].installations)
              IN  /\ HasKey(ml_resp.body.items[n].installations[k], "meters")
                  /\ \E m \in MeterRecs :
                        /\ ml_resp' = [ml_resp EXCEPT
                              !.body.items[n].installations[k].meters = Append(@, m)]
                        /\ ml_expect' = IF HasKey(m, "meter_id")
                                        THEN Append(ml_expect, m.meter_id)
                                        ELSE ml_expect
    /\ UNCHANGED <<ml_ret, coordVars, usVars>>

CallGetMeters ==
    /\ ml_ret = NoneVal
    /\ ml_ret' = Some(sev_get_meters(ml_resp))
    /\ UNCHANGED <<ml_resp, ml_expect, coordVars, usVars>>

NextMeters == AddCustomer \/ AddInstallation \/ AddMeter \/ CallGetMeters

SpecMeters == InitMeters /\ [][NextMeters]_vars

----------------------------------------------------------------------------
(* SpecFetch: sev_fetch_cumulative_meter over usage responses whose first  *)
(* element carries at most MaxReadings readings.                           *)

ReadingRecs ==
    {[time_stamp |-> "t"], Reading(NoneVal)} \cup {Reading(Some(v)) : v \in Values}

Element(readings) == [meter |-> "m", readings |-> readings]

OtherElement == Element(JArr(<<Reading(Some(999))>>))

InitFetch ==
    /\ InitCoordinator /\ upstream = NoneVal /\ IdleML
    /\ us_resp \in { Exception, Http(200, JsonInvalid), Http(200, JsonObject),
                     Http(200, JsonList(<<>>)),
                     Http(200, JsonList(<<[meter |-> "m"]>>)),
                     Http(200, JsonList(<<[meter |-> "m"], OtherElement>>)),
                     Http(200, JsonList(<<Element(JNull)>>)),
                     Http(200, JsonList(<<Element(JArr(<<>>))>>)),
                     Http(200, JsonList(<<Element(JArr(<<>>)), OtherElement>>)),
                     Http(500, JsonList(<<Element(JArr(<<>>))>>)) }
    /\ us_ret = NoneVal

\* a further reading of the first element: no cumulative_value, a null one, or a number
AddReading ==
    /\ us_ret = NoneVal
    /\ us_resp.kind = "http"
    /\ us_resp.body.json = "list"
    /\ Len(us_resp.body.items) > 0
    /\ HasKey(us_resp.body.items[1], "readings")
    /\ us_resp.body.items[1].readings.t = "list"
    /\ Len(us_resp.body.items[1].readings.v) < MaxReadings
    /\ \E r \in ReadingRecs :
          us_resp' = [us_resp EXCEPT !.body.items[1].readings.v = Append(@, r)]
    /\ UNCHANGED <<us_ret, coordVars, mlVars>>

CallFetch ==
    /\ us_ret = NoneVal
    /\ us_ret' = Some(sev_fetch_cumulative_meter(us_resp))
    /\ UNCHANGED <<us_resp, coordVars, mlVars>>

NextFetch == AddReading \/ CallFetch

SpecFetch == InitFetch /\ [][NextFetch]_vars

----------------------------------------------------------------------------
(* Properties *)

Range(seq) == {seq[i] : i \in DOMAIN seq}

IsFetch(c) == c.op = "fetch"
FetchCalls == SelectSeq(calls, IsFetch)

NoListCall == \A i \in DOMAIN calls : calls[i].op # "list"

\* what the last fetch call of the most recent cycle returned for meter id
LastFetchRet(id) ==
    LET f == FetchCalls
        k == CHOOSE k \in DOMAIN f :
                /\ f[k].meter = Some(id)
                /\ \A j \in DOMAIN f : f[j].meter = Some(id) => j <= k
    IN  f[k].ret

\* Authenticate gave no usable token: None, or the empty string of a blank 200 body
TokenMissing(ret) == ret = NoneVal \/ ret = Some(<<>>)

EmptyDiscovery(c) == c.op = "list" /\ c.ret = <<>>

\* the most recent cycle failed in step 1 or step 2
FailedCycle ==
    /\ calls # <<>>
    /\ \/ TokenMissing(calls[1].ret)
       \/ EmptyDiscovery(calls[Len(calls)])

\* the most recent cycle ran to the end of step 3
CompletedCycle == calls # <<>> /\ IsFetch(calls[Len(calls)])

\* C1: a cycle whose authentication yields no token issues no ListMeters and no
\* FetchMeterMax call, a cycle whose discovery comes back empty issues no
\* FetchMeterMax call, and either cycle is reported as an update failure.
C1_FailureAbortsCycle ==
    calls # <<>> =>
        /\ calls[1].op = "auth"
        /\ TokenMissing(calls[1].ret) => (Len(calls) = 1 /\ ~last_update_success)
        /\ \A i \in DOMAIN calls :
              EmptyDiscovery(calls[i]) =>
                  /\ i = Len(calls)
                  /\ FetchCalls = <<>>
                  /\ ~last_update_success

\* C1 witness: meter ids are cached, authentication failed, and nothing else was called
C1_Witness ==
    /\ phase = "running"
    /\ meter_ids # <<>>
    /\ calls = <<Call("auth", NoneVal, NoneVal)>>

\* C2: when authentication succeeded and meter ids are cached, the cycle is reported
\* successful, one fetch was issued per cached id in order, and the snapshot maps
\* each cached id to what this cycle's (last) fetch for that id returned.
C2_PerMeterIsolation ==
    (calls # <<>> /\ ~TokenMissing(calls[1].ret) /\ meter_ids # <<>>) =>
        /\ last_update_success
        /\ data # NoneVal
        /\ DOMAIN data[1] = Range(meter_ids)
        /\ Len(FetchCalls) = Len(meter_ids)
        /\ \A k \in DOMAIN meter_ids : FetchCalls[k].meter = Some(meter_ids[k])
        /\ \A id \in Range(meter_ids) : data[1][id] = LastFetchRet(id)

\* C2 witness: meter 101's fetch failed, meter 102's succeeded, in one cycle
C2_Witness ==
    /\ meter_ids = <<101, 102>>
    /\ last_update_success
    /\ data = Some([id \in {101, 102} |-> IF id = 101 THEN NoneVal ELSE Some(123)])

\* C3: a cycle that fails in step 1 or 2 leaves the snapshot and the cached ids as
\* they were, and is reported as failed.
C3_FailedCycleKeepsState ==
    [][FailedCycle' => (data' = data /\ meter_ids' = meter_ids /\ ~last_update_success')]_vars

\* C3 witness: a failed cycle after a snapshot had been published
C3_Witness == FailedCycle /\ data # NoneVal /\ meter_ids # <<>> /\ ~last_update_success

\* the usage response is HTTP 200, a non-empty list, and its first element has readings
HasReadings(r) ==
    /\ r.kind = "http"
    /\ r.status = 200
    /\ r.body.json = "list"
    /\ Len(r.body.items) > 0
    /\ HasKey(r.body.items[1], "readings")
    /\ r.body.items[1].readings.t = "list"
    /\ r.body.items[1].readings.v # <<>>

NonNullValues(readings) ==
    {CumulativeValue(readings[i])[1] :
        i \in {j \in DOMAIN readings : CumulativeValue(readings[j]) # NoneVal}}

\* the maximum of the non-null cumulative values
MaxOf(S) == CHOOSE m \in S : \A x \in S : x <= m

\* C4: for a 200 response whose first element has readings of which at least one
\* carries a value, FetchMeterMax returns the maximum of the non-null cumulative
\* values, whatever their sign.
C4_ReturnsMaximum ==
    (us_ret # NoneVal /\ HasReadings(us_resp)
        /\ NonNullValues(us_resp.body.items[1].readings.v) # {})
    => us_ret[1] = Some(MaxOf(NonNullValues(us_resp.body.items[1].readings.v)))

\* C5: FetchMeterMax returns none (not 0.0) for a request exception, a non-200
\* status, a body that is no non-empty list, and a first element whose readings
\* are absent, null or empty.
C5_NoReadingsGivesNone ==
    (us_ret # NoneVal /\ ~HasReadings(us_resp)) => us_ret = Some(NoneVal)

\* C5 witness: the fetch was applied to a 200 response with an empty readings list
C5_Witness ==
    /\ us_resp = Http(200, JsonList(<<Element(JArr(<<>>))>>))
    /\ us_ret = Some(NoneVal)

\* C6: a sensor is available exactly when the last cycle completed and the snapshot
\* holds a value for its meter; its value is the snapshot's entry (none without
\* one); after a completed cycle both follow that cycle's fetch for the meter.
C6_SensorView ==
    \A i \in DOMAIN sensors :
        LET s == sensors[i]
            id == s.meter_id
            entry == IF data # NoneVal /\ id \in DOMAIN data[1] THEN data[1][id] ELSE NoneVal
        IN  /\ available(s) <=> (CompletedCycle /\ entry # NoneVal)
            /\ native_value(s) = entry
            /\ CompletedCycle =>
                  /\ available(s) <=> (LastFetchRet(id) # NoneVal)
                  /\ native_value(s) = LastFetchRet(id)

\* C6 witness: 101's fetch failed and 102's succeeded: 101's sensor is unavailable,
\* 102's is available with 102's value
C6_Witness ==
    /\ Len(sensors) = 2
    /\ sensors[1].meter_id = 101 /\ ~available(sensors[1])
    /\ sensors[2].meter_id = 102 /\ available(sensors[2])
    /\ native_value(sensors[2]) = Some(50)
    /\ CompletedCycle

\* C7: the cached ids stay empty until a cycle's ListMeters returns a non-empty
\* sequence, become that sequence in that cycle, and from then on no cycle changes
\* them or calls ListMeters again.
C7_DiscoveredOnce ==
    [][ /\ meter_ids # <<>> => (meter_ids' = meter_ids /\ NoListCall')
        /\ meter_ids = <<>> =>
              IF \E i \in DOMAIN calls' : calls'[i].op = "list" /\ calls'[i].ret # <<>>
              THEN \E i \in DOMAIN calls' : calls'[i].op = "list" /\ meter_ids' = calls'[i].ret
              ELSE meter_ids' = <<>> ]_vars

\* C7 witness: a cycle that ran on the cached ids, without a ListMeters call
C7_Witness == phase = "running" /\ meter_ids # <<>> /\ calls # <<>> /\ NoListCall

\* C8: with a provider that answers every call the same way, a cycle that follows
\* a successful cycle succeeds and publishes the identical snapshot.
C8_Idempotent ==
    [][(last_update_success /\ data # NoneVal) => (last_update_success' /\ data' = data)]_vars

\* C8 witness: the discovery cycle was followed by a cycle on the cached ids, and
\* the snapshot holds a value
C8_Witness ==
    /\ upstream # NoneVal
    /\ phase = "running"
    /\ CompletedCycle /\ NoListCall
    /\ \E id \in DOMAIN data[1] : data[1][id] # NoneVal

\* C9: for a 200 response that is a list of customers, ListMeters returns the
\* meter_id of every meter record that has one, in response order, duplicates kept.
C9_FlattenInOrder ==
    (ml_ret # NoneVal /\ ml_resp.kind = "http" /\ ml_resp.status = 200
        /\ ml_resp.body.json = "list")
    => ml_ret[1] = ml_expect

\* C9 witness: a customer without installations, then a customer whose installation
\* lists a meter without meter_id followed by the same meter_id twice
C9_Witness ==
    /\ ml_ret = Some(<<102, 102>>)
    /\ ml_resp.kind = "http"
    /\ ml_resp.status = 200
    /\ ml_resp.body.json = "list"
    /\ Len(ml_resp.body.items) = 2
    /\ ~HasKey(ml_resp.body.items[1], "installations")
    /\ Len(InstallationsOf(ml_resp.body.items[2])) = 1
    /\ Len(MetersOfInst(ml_resp.body.items[2].installations[1])) = 3
    /\ ~HasKey(ml_resp.body.items[2].installations[1].meters[1], "meter_id")

\* C10: sensors exist only once setup has completed; then there is one sensor per
\* discovered meter and no two sensors share a unique identifier.
C10_SensorsOneToOne ==
    /\ phase # "running" => sensors = <<>>
    /\ phase = "running" =>
          /\ Len(sensors) = Cardinality(Range(meter_ids))
          /\ \A i, j \in DOMAIN sensors :
                i # j => sensors[i].unique_id # sensors[j].unique_id

====
